---- MODULE Spec2Model ----
(***************************************************************************)
(* Random projection (sklearn/random_projection.py): the Johnson-          *)
(* Lindenstrauss bound, the sparse random matrix builder and the           *)
(* SparseRandomProjection estimator (fit / transform).                     *)
(* Also the first-call check of the partial_fit estimators                 *)
(* (sklearn/utils/multiclass.py: _check_partial_fit_first_call).           *)
(*                                                                         *)
(* Numbers.  Densities and uniform draws are reals of [0, 1); they are     *)
(* held exactly as integers counting twelfths (4 is 1/3, 6 is 0.5).  eps   *)
(* is held as an integer counting tenths (1 is 0.1, 10 is 1.0).            *)
(* A value that is either the string 'auto' or a number is a tagged        *)
(* record: Auto, or Num(v).                                                *)
(***************************************************************************)
EXTENDS Integers, Sequences, FiniteSets, TLC

VARIABLES self, call, ctor, fitted

vars == <<self, call, ctor, fitted>>

(***************************************************************************)
(* Bounds of the model.                                                    *)
(***************************************************************************)
MaxComponents == 2
MaxFeatures == 2
MaxSamples == 2
MaxEps == 20
StreamPeriod == 8
MaxSeed == 1

(***************************************************************************)
(* Tagged values.                                                          *)
(***************************************************************************)
Auto == [tag |-> "auto"]
Num(v) == [tag |-> "num", val |-> v]
IsAuto(x) == x.tag = "auto"

\* 1 / float(3) and 0.5, in twelfths.
Third == 4
Half == 6

(***************************************************************************)
(* The uniform random source.  RandomState(seed) is a deterministic        *)
(* stream: the seed fixes every draw.  The seed is read as a number in     *)
(* base Cardinality(DrawValues) whose digits are the first StreamPeriod    *)
(* draws, after which the stream repeats; every sequence of StreamPeriod   *)
(* draws is the stream of exactly one seed.  A generator's state is its    *)
(* seed and its position in the period.                                    *)
(***************************************************************************)
DrawValues == <<2, 4, 6>>

RECURSIVE Pow(_, _)
Pow(b, k) == IF k <= 0 THEN 1 ELSE b * Pow(b, k - 1)

AllSeeds == 0 .. (Pow(Len(DrawValues), StreamPeriod) - 1)

\* The pos-th value (from 0) of the stream of RandomState(seed).
Uniform(seed, pos) ==
    DrawValues[((seed \div Pow(Len(DrawValues), pos % StreamPeriod))
                  % Len(DrawValues)) + 1]

\* check_random_state (sklearn.utils, outside random_projection.py): a seed
\* makes a fresh generator, a generator is returned as it is (the same
\* object, so its position is shared).
check_random_state(random_state) ==
    IF random_state.tag = "seed"
    THEN [tag |-> "RandomState", seed |-> random_state.seed, pos |-> 0]
    ELSE random_state

\* random_state given as an integer seed.
Seed(s) == [tag |-> "seed", seed |-> s]

(***************************************************************************)
(* johnson_lindenstrauss_bound.                                            *)
(***************************************************************************)
\* int(): truncation toward zero of a / b, b # 0.
TruncDiv(a, b) ==
    LET q == (IF a < 0 THEN -a ELSE a) \div (IF b < 0 THEN -b ELSE b)
    IN  IF (a >= 0) = (b > 0) THEN q ELSE -q

\* math.log(n) * 10^5, rounded, for the sample counts of the model.
LogE5 == <<0, 69315, 109861, 138629, 160944, 179176, 194591, 207944>>

\* (eps ** 2 / 2) - (eps ** 3 / 3), times 3000, for eps counting tenths.
Denominator(e) == e * e * (15 - e)

\* The call's outcome: the exception raised, or the integer returned.
johnson_lindenstrauss_bound(n_samples, e) ==
    IF n_samples <= 0
    THEN [err |-> "ValueError", val |-> 0]
    ELSE IF Denominator(e) = 0
    THEN [err |-> "ZeroDivisionError", val |-> 0]
    ELSE [err |-> "none",
          val |-> TruncDiv(12 * LogE5[n_samples], 100 * Denominator(e))]

(***************************************************************************)
(* sparse_random_matrix.                                                   *)
(***************************************************************************)
Unset == [tag |-> "unset"]

Min(a, b) == IF a <= b THEN a ELSE b

RECURSIVE Gcd(_, _)
Gcd(a, b) == IF b = 0 THEN a ELSE Gcd(b, a % b)

\* 1 / math.sqrt(n_features) in twelfths, rounded down (exact comparison
\* with 1/3 for every n_features: it is below 4 exactly when n_features > 9).
InvSqrt(n_features) ==
    CHOOSE d \in 0 .. 12 :
        d * d * n_features <= 144 /\ (d + 1) * (d + 1) * n_features > 144

\* min(1 / math.sqrt(n_features), 1 / 3.)
AutoDensity(n_features) == Min(InvSqrt(n_features), Third)

DensityOutOfRange_zero_allowed(d) == d < 0 \/ d > Third

\* density <= 0 or density > 1 / float(3)
DensityOutOfRange(d) == d <= 0 \/ d > Third

\* math.sqrt(1 / density) / math.sqrt(n_components), held as its square
\* 12 / (density * n_components), a fraction in lowest terms.
Scale(d, n_components) ==
    LET g == Gcd(12, d * n_components)
    IN  <<12 \div g, (d * n_components) \div g>>

\* random_state.uniform(size=size): the next size values of the stream.
uniform(rs, size) == [j \in 1 .. size |-> Uniform(rs.seed, rs.pos + j - 1)]

\* The generator after size values were drawn from it.
Advance(rs, size) == [rs EXCEPT !.pos = (@ + size) % StreamPeriod]

Selected_inclusive(u, prob_nonzero) == u <= prob_nonzero

\* u < prob_nonzero: the mask that selects the non-zero columns of a row.
Selected(u, prob_nonzero) == u < prob_nonzero

\* u < 0.5: the mask of the entries whose sign is flipped.
Negated(u) == u < Half

\* np.arange(n_features)[u < prob_nonzero]
MaskedRange(n_features, u, prob_nonzero) ==
    SelectSeq([j \in 1 .. n_features |-> j - 1],
              LAMBDA c : Selected(u[c + 1], prob_nonzero))

SignDrawSize_all_columns(n_features, n_nonzero_i) == n_features

\* The size of the second uniform() call of a row.
SignDrawSize(n_features, n_nonzero_i) == n_nonzero_i

\* One iteration of the loop over the rows.  log records each uniform()
\* call: the row, which of the row's two calls it is, the generator's
\* position before it and the number of values drawn.
LoopBody(i, n_features, prob_nonzero, st) ==
    LET u == uniform(st.random_state, n_features)
        indices_i == MaskedRange(n_features, u, prob_nonzero)
        rs1 == Advance(st.random_state, n_features)
        n_nonzero_i == Len(indices_i)
        size2 == SignDrawSize(n_features, n_nonzero_i)
        u2 == uniform(rs1, size2)
        data_i == [k \in 1 .. n_nonzero_i |-> IF Negated(u2[k]) THEN -1 ELSE 1]
        rs2 == Advance(rs1, size2)
    IN  [indices |-> Append(st.indices, indices_i),
         data |-> Append(st.data, data_i),
         offset |-> st.offset + n_nonzero_i,
         indptr |-> Append(st.indptr, st.offset + n_nonzero_i),
         random_state |-> rs2,
         log |-> st.log \o
                 <<[row |-> i, call |-> "select",
                    at |-> st.random_state.pos, size |-> n_features],
                   [row |-> i, call |-> "sign", at |-> rs1.pos, size |-> size2]>>]

\* for i in xrange(n_components)
RECURSIVE Loop(_, _, _, _, _)
Loop(i, n_components, n_features, prob_nonzero, st) ==
    IF i >= n_components
    THEN st
    ELSE Loop(i + 1, n_components, n_features, prob_nonzero,
              LoopBody(i, n_features, prob_nonzero, st))

\* np.concatenate
RECURSIVE Concatenate(_)
Concatenate(seqs) ==
    IF seqs = <<>> THEN <<>> ELSE Head(seqs) \o Concatenate(Tail(seqs))

\* The real number c * sqrt(s[1] / s[2]), held as its sign and its square
\* (a fraction in lowest terms), so that equal reals are equal values.
Real(c, s) ==
    LET n == c * c * s[1]
        g == Gcd(n, s[2])
    IN  [sign |-> IF c > 0 THEN 1 ELSE IF c < 0 THEN -1 ELSE 0,
         sq |-> <<n \div g, s[2] \div g>>]

Scaled_unscaled(signs, s) ==
    [k \in 1 .. Len(signs) |-> Real(signs[k], <<1, 1>>)]

\* scalar * csr_matrix: every stored value is multiplied by the scalar.
Scaled(signs, s) == [k \in 1 .. Len(signs) |-> Real(signs[k], s)]

\* The call's outcome: the exception raised or the matrix returned, the
\* generator as the call leaves it, and the log of the uniform() calls.
\* np.concatenate of an empty list (n_components <= 0) raises ValueError.
sparse_random_matrix(n_components, n_features, d, random_state) ==
    LET rs == check_random_state(random_state)
        dens == IF IsAuto(d) THEN AutoDensity(n_features) ELSE d.val
        st0 == [indices |-> <<>>, data |-> <<>>, offset |-> 0,
                indptr |-> <<0>>, random_state |-> rs, log |-> <<>>]
        st == Loop(0, n_components, n_features, dens, st0)
    IN  IF ~IsAuto(d) /\ DensityOutOfRange(d.val)
        THEN [err |-> "ValueError", matrix |-> Unset,
              random_state |-> rs, log |-> <<>>]
        ELSE IF st.data = <<>>
        THEN [err |-> "ValueError", matrix |-> Unset,
              random_state |-> st.random_state, log |-> st.log]
        ELSE [err |-> "none",
              matrix |-> [tag |-> "csr",
                          shape |-> <<n_components, n_features>>,
                          indptr |-> st.indptr,
                          indices |-> Concatenate(st.indices),
                          data |-> Scaled(Concatenate(st.data),
                                          Scale(dens, n_components))],
              random_state |-> st.random_state,
              log |-> st.log]

(***************************************************************************)
(* SparseRandomProjection.                                                 *)
(***************************************************************************)
\* __init__: the arguments are stored as they are; components_ is not set.
init(n_components, d, e, random_state) ==
    [n_components |-> n_components, density |-> d, eps |-> e,
     random_state |-> random_state, components_ |-> Unset]

\* fit(X) for X.shape = (n_samples, n_features): the instance as the call
\* leaves it, the exception raised (or "none") and the uniform() calls made.
fit(slf, n_samples, n_features) ==
    LET rs == check_random_state(slf.random_state)
        s1 == [slf EXCEPT !.random_state = rs]
        auto == IsAuto(slf.n_components)
        jl == johnson_lindenstrauss_bound(n_samples, slf.eps)
        nc == IF auto
              THEN IF jl.val > n_features THEN n_features ELSE jl.val
              ELSE slf.n_components.val
        s2 == [s1 EXCEPT !.n_components = Num(nc)]
        s3 == IF IsAuto(slf.density)
              THEN [s2 EXCEPT !.density = Num(AutoDensity(n_features))]
              ELSE s2
        r == sparse_random_matrix(nc, n_features, s3.density, rs)
        s4 == [s3 EXCEPT !.random_state = r.random_state]
    IN  IF auto /\ jl.err # "none"
        THEN [self |-> s1, err |-> jl.err, log |-> <<>>]
        ELSE IF r.err # "none"
        THEN [self |-> s4, err |-> r.err, log |-> r.log]
        ELSE [self |-> [s4 EXCEPT !.components_ = r.matrix],
              err |-> "none", log |-> r.log]

RECURSIVE SumSeq(_)
SumSeq(q) == IF q = <<>> THEN 0 ELSE Head(q) + SumSeq(Tail(q))

None == [tag |-> "None"]

\* Row i (from 1) of X * m.T for a one-row dense X: the stored values of
\* row i of m, each times the entry of X in its column.
ProductEntry(X, m, i) ==
    LET ks == [k \in 1 .. (m.indptr[i + 1] - m.indptr[i]) |-> m.indptr[i] + k]
        c == SumSeq([k \in 1 .. Len(ks) |->
                       X[m.indices[ks[k]] + 1] * m.data[ks[k]].sign])
    IN  IF ks = <<>> THEN Real(0, <<0, 1>>)
        ELSE Real(c, m.data[ks[1]].sq)

transform_identity_when_unfitted(slf, X) ==
    IF slf.components_ = Unset
    THEN [self |-> slf, err |-> "none", result |-> X]
    ELSE IF Len(X) # slf.components_.shape[2]
    THEN [self |-> slf, err |-> "ValueError", result |-> None]
    ELSE [self |-> slf, err |-> "none",
          result |-> [i \in 1 .. slf.components_.shape[1] |->
                        ProductEntry(X, slf.components_, i)]]

transform_storing_generator(slf, X) ==
    LET s1 == [slf EXCEPT !.random_state = check_random_state(@)]
    IN  IF slf.components_ = Unset
        THEN [self |-> s1, err |-> "AttributeError", result |-> None]
        ELSE IF Len(X) # slf.components_.shape[2]
        THEN [self |-> s1, err |-> "ValueError", result |-> None]
        ELSE [self |-> s1, err |-> "none",
              result |-> [i \in 1 .. slf.components_.shape[1] |->
                            ProductEntry(X, slf.components_, i)]]

\* transform(X) for a dense X of one row: X * self.components_.T.  The
\* attribute lookup fails on an instance without components_; the product
\* fails when the widths disagree.
transform(slf, X) ==
    IF slf.components_ = Unset
    THEN [self |-> slf, err |-> "AttributeError", result |-> None]
    ELSE IF Len(X) # slf.components_.shape[2]
    THEN [self |-> slf, err |-> "ValueError", result |-> None]
    ELSE [self |-> slf, err |-> "none",
          result |-> [i \in 1 .. slf.components_.shape[1] |->
                        ProductEntry(X, slf.components_, i)]]

(***************************************************************************)
(* The state.  self holds the attributes of one estimator; call records    *)
(* the last call made, with its arguments, the instance before it and its  *)
(* outcome; ctor holds the constructor's arguments; fitted tells whether   *)
(* a fit call has returned without raising.                               *)
(***************************************************************************)
NoCall == [op |-> "none"]
NoInstance == [tag |-> "none"]

Densities == {Auto} \cup {Num(v) : v \in -1 .. Half}
EstimatorDensities == {Auto} \cup {Num(v) : v \in {-1, 0, Third, Half}}
EstimatorEps == {0, 1}
Inputs == {[j \in 1 .. w |-> a * j] : w \in 1 .. MaxFeatures, a \in {-1, 1}}

\* johnson_lindenstrauss_bound(n_samples, eps=eps)
BoundCall ==
    /\ call.op = "johnson_lindenstrauss_bound" /\ call.ret = None
    /\ call' = [call EXCEPT
                  !.ret = johnson_lindenstrauss_bound(call.n_samples, call.eps)]
    /\ UNCHANGED <<self, ctor, fitted>>

\* sparse_random_matrix(n_components, n_features, density, random_state)
BuildCall ==
    /\ call.op = "sparse_random_matrix" /\ call.ret = None
    /\ call' = [call EXCEPT
                  !.ret = sparse_random_matrix(call.n_components,
                                               call.n_features, call.density,
                                               call.random_state)]
    /\ UNCHANGED <<self, ctor, fitted>>

\* estimator.fit(X)
Fit ==
    /\ \E n \in 1 .. MaxSamples, m \in 1 .. MaxFeatures :
         LET out == fit(self, n, m)
         IN  /\ self' = out.self
             /\ call' = [op |-> "fit", n_samples |-> n, n_features |-> m,
                         err |-> out.err, log |-> out.log]
             /\ fitted' = (fitted \/ out.err = "none")
    /\ UNCHANGED ctor

\* estimator.transform(X)
Transform ==
    /\ \E X \in Inputs :
         LET out == transform(self, X)
         IN  /\ self' = out.self
             /\ call' = [op |-> "transform", X |-> X,
                         err |-> out.err, result |-> out.result]
    /\ UNCHANGED <<ctor, fitted>>

\* sparse_random_matrix called directly, beside the estimator, with the
\* density and the seed the estimator was constructed with.
DirectCall ==
    /\ \E n \in 1 .. MaxComponents, m \in 1 .. MaxFeatures :
         call' = [op |-> "sparse_random_matrix",
                  n_components |-> n, n_features |-> m,
                  density |-> ctor.density, random_state |-> ctor.random_state,
                  ret |-> sparse_random_matrix(n, m, ctor.density,
                                               ctor.random_state)]
    /\ UNCHANGED <<self, ctor, fitted>>

\* The estimator's life: constructed, then fitted and used in any order.
Init ==
    \E n \in {Auto} \cup {Num(v) : v \in 1 .. MaxComponents},
       d \in EstimatorDensities, e \in EstimatorEps, seed \in 0 .. MaxSeed :
        /\ self = init(n, d, e, Seed(seed))
        /\ ctor = [n_components |-> n, density |-> d, eps |-> e,
                   random_state |-> Seed(seed)]
        /\ call = NoCall
        /\ fitted = FALSE

Next == Fit \/ Transform \/ DirectCall

Spec == Init /\ [][Next]_vars

\* johnson_lindenstrauss_bound on its own: the arguments, then the call.
InitBound ==
    /\ self = NoInstance /\ ctor = NoInstance /\ fitted = FALSE
    /\ \E n \in -1 .. MaxSamples, e \in -MaxEps .. MaxEps :
         call = [op |-> "johnson_lindenstrauss_bound",
                 n_samples |-> n, eps |-> e, ret |-> None]

SpecBound == InitBound /\ [][BoundCall]_vars

\* sparse_random_matrix on its own: the arguments, then the call.
InitBuild ==
    /\ self = NoInstance /\ ctor = NoInstance /\ fitted = FALSE
    /\ \E n \in 0 .. MaxComponents, m \in 1 .. MaxFeatures,
          d \in Densities, seed \in AllSeeds :
         call = [op |-> "sparse_random_matrix",
                 n_components |-> n, n_features |-> m, density |-> d,
                 random_state |-> Seed(seed), ret |-> None]

SpecBuild == InitBuild /\ [][BuildCall]_vars

(***************************************************************************)
(* sklearn/utils/multiclass.py: unique_labels and                          *)
(* _check_partial_fit_first_call.  Labels are the integers 0 .. MaxLabel;  *)
(* the classes argument is None or a list of at most MaxClasses labels, in *)
(* any order and with repetitions.  A numpy array of one dimension is      *)
(* Array(v) for v the sequence of its elements.                            *)
(***************************************************************************)
MaxLabel == 2
MaxClasses == 3

List(v) == [tag |-> "list", v |-> v]
Array(v) == [tag |-> "array", v |-> v]

\* _unique_multiclass(y) for a list y: set(y).
unique_multiclass(y) == {y[k] : k \in 1 .. Len(y)}

\* sorted(labels): the labels in ascending order.
RECURSIVE sorted(_)
sorted(labels) ==
    IF labels = {}
    THEN <<>>
    ELSE LET least == CHOOSE x \in labels : \A z \in labels : x <= z
         IN  <<least>> \o sorted(labels \ {least})

\* type_of_target(y) for a list y of integers: 'binary' for at most two
\* distinct values (the empty list included), 'multiclass' for more.
type_of_target(y) ==
    IF Cardinality(unique_multiclass(y)) <= 2 THEN "binary" ELSE "multiclass"

\* unique_labels(y) for one list y of integers.  Its type is binary or
\* multiclass, both of which extract the labels with _unique_multiclass, and
\* integers are never a mix of strings and numbers: none of the function's
\* errors can be raised, and the result is np.array(sorted(set(y))).
unique_labels(y) ==
    IF type_of_target(y.v) \in {"binary", "multiclass"}
    THEN [err |-> "none", val |-> Array(sorted(unique_multiclass(y.v)))]
    ELSE [err |-> "ValueError", val |-> None]

\* a == b for two arrays of one dimension.  Arrays of the same length are
\* compared element by element; an array of length 1 is broadcast against
\* the other array, whatever its length (the result has no element when the
\* other array is empty); two lengths that cannot be broadcast give no
\* array: the scalar False.
ArrayEq(a, b) ==
    IF Len(a.v) = Len(b.v)
    THEN [k \in 1 .. Len(a.v) |-> a.v[k] = b.v[k]]
    ELSE IF Len(a.v) = 1
    THEN [k \in 1 .. Len(b.v) |-> a.v[1] = b.v[k]]
    ELSE IF Len(b.v) = 1
    THEN [k \in 1 .. Len(a.v) |-> a.v[k] = b.v[1]]
    ELSE <<FALSE>>

\* np.all(m): true of an array without elements.
np_all(m) == \A k \in 1 .. Len(m) : m[k]

\* getattr(clf, 'classes_', None)
getattr_classes_(clf) == IF clf.classes_ = Unset THEN None ELSE clf.classes_

\* _check_partial_fit_first_call(clf, classes): the estimator after the call,
\* the error raised ("none" if the call returned) and the value returned.
check_partial_fit_first_call(clf, classes) ==
    IF getattr_classes_(clf) = None /\ classes = None
    THEN [clf |-> clf, err |-> "ValueError", ret |-> "None"]
    ELSE IF classes # None
    THEN LET labels == unique_labels(classes)
         IN  IF labels.err # "none"
             THEN [clf |-> clf, err |-> labels.err, ret |-> "None"]
             ELSE IF getattr_classes_(clf) # None
             THEN IF ~np_all(ArrayEq(clf.classes_, labels.val))
                  THEN [clf |-> clf, err |-> "ValueError", ret |-> "None"]
                  ELSE [clf |-> clf, err |-> "none", ret |-> "False"]
             ELSE [clf |-> [clf EXCEPT !.classes_ = labels.val],
                   err |-> "none", ret |-> "True"]
    ELSE [clf |-> clf, err |-> "none", ret |-> "False"]

RECURSIVE Lists(_)
Lists(n) ==
    IF n = 0
    THEN {<<>>}
    ELSE Lists(n - 1)
           \cup {Append(q, x) : q \in {r \in Lists(n - 1) : Len(r) = n - 1},
                                x \in 0 .. MaxLabel}

\* The values of the classes argument.
ClassesArgs == {None} \cup {List(q) : q \in Lists(MaxClasses)}

\* _check_partial_fit_first_call(self, classes); fitted records that a call
\* has returned True.
PartialFitCall ==
    /\ \E classes \in ClassesArgs :
         LET out == check_partial_fit_first_call(self, classes)
         IN  /\ self' = out.clf
             /\ call' = [op |-> "_check_partial_fit_first_call",
                         classes |-> classes,
                         err |-> out.err, ret |-> out.ret]
             /\ fitted' = (fitted \/ out.ret = "True")
    /\ UNCHANGED ctor

\* One estimator that has no classes_ attribute yet, then any sequence of
\* calls on it.
InitPartial ==
    /\ self = [classes_ |-> Unset]
    /\ ctor = NoInstance
    /\ call = NoCall
    /\ fitted = FALSE

SpecPartial == InitPartial /\ [][PartialFitCall]_vars

(***************************************************************************)
(* Properties of sparse_random_matrix (under SpecBuild).                   *)
(***************************************************************************)
\* A call of sparse_random_matrix that has returned or raised.
Built == call.op = "sparse_random_matrix" /\ call.ret # None

\* The density a call builds with.
BuiltDensity ==
    IF IsAuto(call.density) THEN AutoDensity(call.n_features)
    ELSE call.density.val

\* The stored positions of row i (from 0) of matrix m.
Slice(m, i) == (m.indptr[i + 1] + 1) .. m.indptr[i + 2]

\* C1: for n_components >= 1, n_features >= 1 and a density in (0, 1/3],
\* whatever the draws, the call returns a matrix in compressed-row form:
\* n_components + 1 offsets that start at 0, never decrease and end at the
\* number of stored values; column indices in [0, n_features) that increase
\* strictly within each row; every stored value +s or -s, where
\* s * s = 1 / (density * n_components).
C1_CompressedRowInvariants ==
    (/\ Built
     /\ call.n_components >= 1 /\ call.n_features >= 1
     /\ ~IsAuto(call.density)
     /\ call.density.val > 0 /\ call.density.val <= Third)
    => /\ call.ret.err = "none"
       /\ LET m == call.ret.matrix
               n == call.n_components
           IN  /\ Len(m.indptr) = n + 1
               /\ m.indptr[1] = 0
               /\ \A i \in 1 .. n : m.indptr[i] <= m.indptr[i + 1]
               /\ m.indptr[n + 1] = Len(m.data)
               /\ Len(m.indices) = Len(m.data)
               /\ \A k \in 1 .. Len(m.indices) :
                     m.indices[k] >= 0 /\ m.indices[k] < call.n_features
               /\ \A i \in 0 .. n - 1 : \A k1, k2 \in Slice(m, i) :
                     k1 < k2 => m.indices[k1] < m.indices[k2]
               /\ \A k \in 1 .. Len(m.data) :
                     /\ m.data[k].sign \in {-1, 1}
                     /\ m.data[k].sq[1] * call.density.val * n
                          = 12 * m.data[k].sq[2]

\* Two rows, one of them empty and one holding both signs.
C1_Witness ==
    /\ Built /\ call.ret.err = "none"
    /\ ~IsAuto(call.density) /\ call.density.val = 3
    /\ call.n_components = 2 /\ call.n_features = 2
    /\ call.ret.matrix.indptr = <<0, 0, 2>>
    /\ call.ret.matrix.data[1].sign = -1
    /\ call.ret.matrix.data[2].sign = 1

\* The number of values the uniform() calls of log draw.
RECURSIVE Drawn(_)
Drawn(log) == IF log = <<>> THEN 0 ELSE Head(log).size + Drawn(Tail(log))

\* C9: a call that returns a matrix makes exactly two uniform() calls per
\* row, rows in ascending order: first n_features selection values, then as
\* many sign values as the row has stored columns; each call starts where
\* the one before it ended, so a build draws
\* n_components * n_features + nnz values in all.
C9_DrawOrder ==
    (Built /\ call.ret.err = "none")
    => LET log == call.ret.log
           m == call.ret.matrix
           n == call.n_components
       IN  /\ Len(log) = 2 * n
           /\ \A i \in 0 .. n - 1 :
                 /\ log[2 * i + 1].row = i
                 /\ log[2 * i + 1].call = "select"
                 /\ log[2 * i + 1].size = call.n_features
                 /\ log[2 * i + 2].row = i
                 /\ log[2 * i + 2].call = "sign"
                 /\ log[2 * i + 2].size = m.indptr[i + 2] - m.indptr[i + 1]
           /\ log[1].at = 0
           /\ \A j \in 1 .. Len(log) - 1 :
                 log[j + 1].at = (log[j].at + log[j].size) % StreamPeriod
           /\ Drawn(log) = n * call.n_features + Len(m.data)
           /\ call.ret.random_state.pos = Drawn(log) % StreamPeriod

\* Two rows of two columns: one column stored in the first, two in the second.
C9_Witness ==
    /\ Built /\ call.ret.err = "none"
    /\ call.n_components = 2 /\ call.n_features = 2
    /\ call.ret.matrix.indptr = <<0, 1, 3>>
    /\ Drawn(call.ret.log) = 7

\* The position in the stream at which row i (from 0) of a built matrix
\* starts: every earlier row drew n_features values and one per stored column.
RowStart(i) == i * call.n_features + call.ret.matrix.indptr[i + 1]

\* C10: in a built matrix, column j of row i is stored exactly when the
\* row's j-th selection draw is strictly below the density, and the k-th
\* stored column of the row has sign -1 exactly when the row's k-th sign
\* draw is strictly below 0.5 (+1 otherwise).
C10_ReferenceRule ==
    (Built /\ call.ret.err = "none")
    => LET m == call.ret.matrix
           seed == call.random_state.seed
       IN  \A i \in 0 .. call.n_components - 1 :
               /\ \A j \in 0 .. call.n_features - 1 :
                     (\E k \in Slice(m, i) : m.indices[k] = j)
                     <=> Uniform(seed, RowStart(i) + j) < BuiltDensity
               /\ \A k \in Slice(m, i) :
                     LET u == Uniform(seed, RowStart(i) + call.n_features
                                            + (k - m.indptr[i + 1]) - 1)
                     IN  /\ (m.data[k].sign = -1) <=> (u < Half)
                         /\ (m.data[k].sign = 1) <=> (u >= Half)

\* A selection draw equal to the density (the column is not stored) and a
\* sign draw equal to 0.5 (the sign is +1).
C10_Witness ==
    /\ Built /\ call.ret.err = "none"
    /\ call.n_components = 1 /\ call.n_features = 2
    /\ BuiltDensity = Third
    /\ Uniform(call.random_state.seed, 0) = Third
    /\ Uniform(call.random_state.seed, 1) < Third
    /\ Uniform(call.random_state.seed, 2) = Half
    /\ call.ret.matrix.indices = <<1>>
    /\ call.ret.matrix.data[1].sign = 1

(***************************************************************************)
(* Errors.  The code raises Python exceptions.  An invalid argument shows  *)
(* as ValueError (the density check, math.log of a non-positive number,    *)
(* np.concatenate of nothing) or as ZeroDivisionError (a zero denominator  *)
(* of the bound); a missing components_ shows as AttributeError.           *)
(***************************************************************************)
InvalidArgument == {"ValueError", "ZeroDivisionError"}

NotFitted == "AttributeError"

(***************************************************************************)
(* Properties of johnson_lindenstrauss_bound (under SpecBound).            *)
(***************************************************************************)
\* C6: a call with eps <= 0, eps >= 1 or n_samples < 1 raises an
\* invalid-argument error; it never returns an integer.
C6_BoundRejectsInvalid ==
    (/\ call.op = "johnson_lindenstrauss_bound" /\ call.ret # None
     /\ (call.eps <= 0 \/ call.eps >= 10 \/ call.n_samples < 1))
    => call.ret.err \in InvalidArgument

(***************************************************************************)
(* Properties of the estimator (under Spec).                               *)
(***************************************************************************)
\* C2: a fit call that raises ValueError, the invalid-argument error, leaves
\* every attribute of the instance (n_components, density, random_state,
\* components_) as it was before the call.
C2_FitAtomicOnError ==
    [][(call'.op = "fit" /\ call'.err = "ValueError") => self' = self]_vars

\* C3: two successive fit calls on one instance, on inputs of the same
\* shape, both returning, store the same matrix.
C3_RefitReproduces ==
    [][(/\ call.op = "fit" /\ call.err = "none"
        /\ call'.op = "fit" /\ call'.err = "none"
        /\ call'.n_samples = call.n_samples
        /\ call'.n_features = call.n_features)
       => self'.components_ = self.components_]_vars

\* C4: on an instance constructed with n_components = 'auto', after every
\* fit call that returns, n_components is
\* min(johnson_lindenstrauss_bound(n_samples, eps), n_features) for the
\* shape of that call's input, hence at most its n_features.
C4_AutoComponentsFollowInput ==
    (call.op = "fit" /\ call.err = "none" /\ IsAuto(ctor.n_components))
    => /\ self.n_components =
            Num(Min(johnson_lindenstrauss_bound(call.n_samples, ctor.eps).val,
                    call.n_features))
       /\ self.n_components.val <= call.n_features

\* A density outside (0, 1/3].
OutsideRange(d) == ~IsAuto(d) /\ (d.val <= 0 \/ d.val > Third)

\* C5: a density outside (0, 1/3] is rejected with an invalid-argument
\* error by sparse_random_matrix and by fit, before any value is drawn and
\* before any row is built: the call makes no uniform() call, leaves the
\* generator at its start and returns or stores no matrix.  After a fit call
\* that returns, the instance's density is a number in (0, 1/3].
C5_DensityRejected ==
    /\ (call.op = "sparse_random_matrix" /\ OutsideRange(call.density))
       => /\ call.ret.err = "ValueError"
          /\ call.ret.log = <<>>
          /\ call.ret.matrix = Unset
          /\ call.ret.random_state.pos = 0
    /\ (call.op = "fit" /\ OutsideRange(ctor.density))
       => /\ call.err \in InvalidArgument
          /\ call.err = "ZeroDivisionError"
               => (IsAuto(ctor.n_components) /\ ctor.eps = 0)
          /\ call.log = <<>>
          /\ self.random_state.pos = 0
          /\ self.components_ = Unset
          /\ ~fitted
    /\ (call.op = "fit" /\ call.err = "none")
       => /\ ~IsAuto(self.density)
          /\ self.density.val > 0 /\ self.density.val <= Third

\* fit has rejected a density of 0.5: the generator exists and is unused.
C5_Witness ==
    /\ call.op = "fit" /\ call.err = "ValueError"
    /\ ctor.density = Num(Half)
    /\ ~IsAuto(ctor.n_components)
    /\ self.random_state.tag = "RandomState"
    /\ self.random_state.pos = 0
    /\ self.components_ = Unset

\* C7: a transform call made while no fit call has returned raises the
\* not-fitted error and returns nothing.
C7_TransformBeforeFit ==
    (call.op = "transform" /\ ~fitted)
    => (call.err = NotFitted /\ call.result = None)

\* transform after a fit call that raised.
C7_Witness ==
    /\ call.op = "transform" /\ ~fitted
    /\ self.random_state.tag = "RandomState"
    /\ call.err = NotFitted

\* The sign stored at row i, column j (both from 0) of matrix m; 0 if none.
SignAt(m, i, j) ==
    IF \E k \in Slice(m, i) : m.indices[k] = j
    THEN m.data[CHOOSE k \in Slice(m, i) : m.indices[k] = j].sign
    ELSE 0

\* result is the row vector X times the transpose of m, whose stored values
\* are +s or -s with s * s = 1 / (d * n): entry i is c * s for
\* c = the sum over the columns j of X[j] * (the sign stored at (i, j)).
IsProduct(result, X, m, d, n) ==
    /\ Len(result) = m.shape[1]
    /\ \A i \in 1 .. Len(result) :
         LET c == SumSeq([j \in 1 .. Len(X) |-> X[j] * SignAt(m, i - 1, j - 1)])
         IN  /\ result[i].sign = (IF c > 0 THEN 1 ELSE IF c < 0 THEN -1 ELSE 0)
             /\ result[i].sq[1] * d * n = 12 * c * c * result[i].sq[2]

\* C8: a transform call changes no attribute of the instance; when it
\* returns, its result is the product of its input with the transpose of the
\* stored matrix, so a call repeated on the same input returns the same.
C8_TransformReadsOnly ==
    [][call'.op = "transform"
       => /\ self' = self
          /\ call'.err = "none"
               => IsProduct(call'.result, call'.X, self.components_,
                            self.density.val, self.n_components.val)
          /\ (call.op = "transform" /\ call.X = call'.X)
               => (call'.err = call.err /\ call'.result = call.result)]_vars

\* A transform call on a fitted instance returned a non-zero projection.
C8_Witness ==
    /\ call.op = "transform" /\ call.err = "none"
    /\ fitted
    /\ Len(self.components_.data) = 2
    /\ \E i \in 1 .. Len(call.result) : call.result[i].sign # 0

(***************************************************************************)
(* Properties of _check_partial_fit_first_call (under SpecPartial).        *)
(***************************************************************************)
\* The labels of a classes argument and of a stored classes_.
GivenLabels(classes) == {classes.v[k] : k \in 1 .. Len(classes.v)}

\* classes_ is an array that holds each of its labels once, in ascending
\* order.
SortedUnique(a) == \A j, k \in 1 .. Len(a.v) : j < k => a.v[j] < a.v[k]

\* The stored classes_, once set, is the same after every call, and a call
\* returns True only when no call has returned True before it.
ClassesFixedOnceSet ==
    [][/\ self.classes_ # Unset => self'.classes_ = self.classes_
       /\ call'.ret = "True" => ~fitted]_vars

\* C11: in any sequence of calls on one estimator, a call with classes=None
\* while classes_ is unset raises and leaves classes_ unset; the first call
\* with classes given sets classes_ to the sorted unique labels and returns
\* True; every later call leaves classes_ as it is, and raises if classes is
\* given and its labels are not the stored ones, and returns False
\* otherwise; so True is returned at most once.
C11_FirstCallOnce ==
    [][call'.op = "_check_partial_fit_first_call"
       => /\ (self.classes_ = Unset /\ call'.classes = None)
               => (call'.err # "none" /\ self'.classes_ = Unset)
          /\ (self.classes_ = Unset /\ call'.classes # None)
               => /\ call'.err = "none" /\ call'.ret = "True"
                  /\ self'.classes_ # Unset
                  /\ SortedUnique(self'.classes_)
                  /\ GivenLabels(self'.classes_) = GivenLabels(call'.classes)
          /\ self.classes_ # Unset
               => /\ self'.classes_ = self.classes_
                  /\ IF /\ call'.classes # None
                        /\ GivenLabels(call'.classes)
                             # GivenLabels(self.classes_)
                     THEN call'.err # "none"
                     ELSE call'.err = "none" /\ call'.ret = "False"
          /\ call'.ret = "True" => ~fitted]_vars

====
